---- MODULE Spec2Model ----
(***************************************************************************)
(* Model of the Delivery Queue (src/core/queue/message_queue.py and the    *)
(* line-for-line identical loop of src/core/queue/request_queue.py) and of *)
(* the Connection Pool (src/core/database/connection_pool.py), and of the   *)
(* bounded MessageQueue and RequestQueue of src/utils/queue.py.             *)
(*                                                                         *)
(* Time is discrete.  For the queue one tick is rate_limit, which for the  *)
(* RequestQueue (rate_limit = 2.0 s) is also the fixed 2.0 s retry delay.  *)
(* The jitter sleep rate_limit * (0.8 + 0.4 * random()) lies between 0.8   *)
(* and 1.2 ticks: it crosses 0, 1 or 2 tick boundaries.  The 0.1 s poll    *)
(* sleep is shorter than a tick, so the loop may look again within the     *)
(* same tick.  A sleep ends at or after its deadline, never before.        *)
(*                                                                         *)
(* The queue is driven from one asyncio event loop: code between two       *)
(* awaits runs without interleaving, so each action below is one such      *)
(* stretch.  CancelledError is a BaseException (Python 3.8 and later).     *)
(***************************************************************************)
EXTENDS Integers, Sequences, FiniteSets, TLC

\* ------------------------------------------------------------------ bounds
NumItems == 3
NumConcItems == 2
MaxTime == 4
MaxDelay == 1
NumTasks == 2
MaxStopping == 1
NumThreads == 3
NumConns == 4
MaxConnections == 2
PoolTimeout == 1
MaxIdleTime == 0
PoolHorizon == 1
NumDbThreads == 2
LivePutBy == 2
NumUEntries == 3
NumUTasks == 2
MaxQueueSize == 2
MaxPriority == 1
UtilHorizon == 1

\* ------------------------------------------------------- program constants
HIGH == 0
NORMAL == 1
LOW == 2
DefaultMaxRetries == 3
\* rate_limit, in ticks: the RequestQueue's 2.0 s is one tick
RateLimit == 1
\* the retry delay `time.time() + 2.0`, in ticks of 2.0 s
RetryDelay == 1
\* utils/queue.py: retry_times, and min_interval (1.0 s, one tick there)
RetryTimes == 3
MinInterval == 1

Priorities == {HIGH, NORMAL, LOW}
Items == 1..NumItems
ConcItems == 1..NumConcItems
Threads == 1..NumThreads
ConnIds == 1..NumConns
DbThreads == 1..NumDbThreads
NoConn == 0
TaskIds == 1..NumTasks
Delays == {0, MaxDelay}
NoTask == 0
NoItem == 0
NoTime == 0 - 1
NoKey == <<NoTime, NoTime>>

\* random_delay = True: delay = rate_limit * (0.8 + 0.4 * random.random())
JitterMin == (8 * RateLimit) \div 10
JitterMax == (12 * RateLimit + 9) \div 10
JitterDelays == JitterMin..JitterMax

\* what the transport call produces: a response whose status is "ok", a
\* response with another status, no response, or an exception
Responses == {"ok", "failed", "none", "raise"}

\* the back-off `await asyncio.sleep(1.0)` after an error in an iteration:
\* half a tick of 2.0 s, it crosses no tick boundary or one
BackoffDelays == {0, RateLimit}

VARIABLES
    now,             \* time.time()
    item,            \* the QueuedMessage objects, and where each one is
    running,         \* MessageQueue.running
    task,            \* MessageQueue.task (NoTask for None)
    tasks,           \* the _process_queue tasks: position, sleep left, item
    stopPending,     \* stop() calls suspended in `await self.task`
    last_send_time,  \* MessageQueue.last_send_time
    lastRem,         \* history: (priority, scheduled_time) of the last removal
    scenario,        \* history: LOW, HIGH, NORMAL were put in this order with
                     \* equal scheduled_time before anything was removed
    lastOk,          \* history: when the last successful send completed, kept
                     \* while it is less than rate_limit ago
    connections,     \* ConnectionPool.connections, a list of Connection objects
    connection_count,\* ConnectionPool.connection_count
    conn,            \* the Connection objects: in_use, last_used, handle open
    thr,             \* the pool's callers: position, connection held, clock read
    lastExc,         \* history: the exception the latest step of a pool call
                     \* raised, "none" if it raised none
    lock,            \* the thread inside a `with self.lock` block of the wait
                     \* loop, NoThread when the lock is free
    rq,              \* the RequestQueue object next to the MessageQueue: its
                     \* request, running, last_process_time and its loop
    uq               \* a queue object of src/utils/queue.py (MessageQueue or
                     \* RequestQueue): queue, running, task, last_send_time,
                     \* its entries and its _process_queue tasks

qvars == <<item, running, task, tasks, stopPending, last_send_time,
           lastRem, scenario, lastOk>>

pvars == <<connections, connection_count, conn, thr, lastExc, lock>>

vars == <<now, qvars, pvars, rq, uq>>

\* --------------------------------------------------------- QueuedMessage
\* st is where the object is: not yet created ("new"), in self.queue
\* ("queued"), taken out for a transport call ("flight"), delivered ("done"),
\* given up after its retries ("dropped"), or gone with a cancelled task
\* ("lost").  attempts counts the transport calls made for it.
NewItem ==
    [st |-> "new", priority |-> NORMAL, scheduled_time |-> 0,
     retry_count |-> 0, max_retries |-> DefaultMaxRetries, attempts |-> 0]

\* QueuedMessage.__init__ as put() calls it: retry_count and max_retries keep
\* their defaults, scheduled_time = create_time + delay
QueuedMessage(p, d) ==
    [st |-> "queued", priority |-> p, scheduled_time |-> now + d,
     retry_count |-> 0, max_retries |-> DefaultMaxRetries, attempts |-> 0]

\* an ordering that looks at scheduled_time alone
LtScheduleOnly(a, b) == a.scheduled_time < b.scheduled_time

\* QueuedMessage.__lt__
Lt(a, b) ==
    IF a.priority # b.priority
    THEN a.priority < b.priority
    ELSE a.scheduled_time < b.scheduled_time

Key(m) == <<m.priority, m.scheduled_time>>

KeyLt(k1, k2) == k1[1] < k2[1] \/ (k1[1] = k2[1] /\ k1[2] < k2[2])

KeyLe(k1, k2) == ~KeyLt(k2, k1)

\* the contents of self.queue (a PriorityQueue)
Queued == {i \in Items : item[i].st = "queued"}

\* a loop that looks for the least item among those already due
HeadsDue ==
    LET due == {i \in Queued : item[i].scheduled_time <= now}
    IN {i \in due : \A j \in due : ~Lt(item[j], item[i])}

\* a queue that puts re-queued items behind every fresh one
HeadsFreshFirst ==
    LET fresh == {i \in Queued : item[i].retry_count = 0}
        first == IF fresh # {} THEN fresh ELSE Queued
    IN {i \in first : \A j \in first : ~Lt(item[j], item[i])}

\* self.queue.queue[0], the root of the heap: an item no other item is less
\* than.  Which of several equal items is at the root depends on the heap's
\* history, so any of them may be.
Heads == {i \in Queued : \A j \in Queued : ~Lt(item[j], item[i])}

FreeTasks == {t \in TaskIds : tasks[t].pc = "none" /\ t # task}

\* soon: the transport call of this task began less than rate_limit after a
\* successful send completed, or before it completed (history)
IdleTask == [pc |-> "none", left |-> 0, cur |-> NoItem, soon |-> FALSE]

\* an object nothing refers to any more: only its outcome and its counters
\* are kept
Gone(m, outcome) ==
    [NewItem EXCEPT !.st = outcome, !.retry_count = m.retry_count,
                    !.attempts = m.attempts]

\* ----------------------------------------------------------- RequestQueue
\* RequestQueue.__init__: an empty queue, not running, no task (pc "none"),
\* last_process_time 0.0.  req is the one QueuedRequest followed, wake the
\* time the loop's sleep ends.
NewRequestQueue ==
    [req |-> NewItem, running |-> FALSE, last_process_time |-> 0,
     pc |-> "none", wake |-> 0]

\* ------------------------------------------------- queues of utils/queue.py
UEntries == 1..NumUEntries
UTasks == 1..NumUTasks
UPriorities == 0..MaxPriority

\* the class the queue object is an instance of
UKinds == {"message", "request"}

\* One entry put into the queue: the tuple (message, target_id, bot,
\* message_type, priority) of MessageQueue.put or (func, args, kwargs,
\* future) of RequestQueue.put.  st is where it is: not yet put ("new"),
\* refused by put ("rejected"), in self.queue ("queued"), taken out by the
\* loop ("flight"), sent or executed successfully ("sent"), given up after
\* retry_times failed calls ("failed"), left behind by an exception that
\* escaped the retry loop ("error"), gone with a cancelled task ("lost"), or
\* held by a producer suspended in queue.put ("blocked").  calls counts the
\* invocations of func (of the bot's API for a message).  fut is the state
\* of the request's future ("none" for a message, which has no future) and
\* futAt the value of calls when the future was completed.
NewEntry ==
    [st |-> "new", priority |-> 0, calls |-> 0, fut |-> "none", futAt |-> 0]

\* A _process_queue task.  pc is the await it is suspended in: not created
\* or finished ("none"), created and not yet run ("created"),
\* asyncio.sleep(0.1) ("idle"), the sleep up to min_interval ("pace"),
\* queue.get() on an empty queue ("get"), the random delay ("delay"), the
\* call of func or of the bot's API ("call"), the sleep(1) after a failed
\* call ("backoff"), the sleep(1) after an exception in the loop ("err").
\* cur is the entry it has taken out, i the index of the retry loop,
\* cancelled is set by task.cancel() until the task runs again.
IdleUTask == [pc |-> "none", cur |-> NoItem, i |-> 0, cancelled |-> FALSE]

\* MessageQueue.__init__ / RequestQueue.__init__ (last_time is
\* last_send_time resp. last_request_time)
NewUQueue(k) ==
    [kind |-> k, queue |-> <<>>, running |-> FALSE, task |-> NoTask,
     last_time |-> 0,
     ent |-> [e \in UEntries |-> NewEntry],
     tk |-> [t \in UTasks |-> IdleUTask]]

\* ------------------------------------------------------------- Connection
\* a Connection object that does not exist (yet, or any more)
NoConnection == [in_use |-> FALSE, last_used |-> 0, open |-> FALSE]

\* pc is where the caller is: outside any call ("idle"), in acquire()'s wait
\* loop ("wait", t0 = start_time), using the connection acquire() returned
\* ("hold"), or inside Connection.close() after its first ("close1") or
\* second ("close2") statement.  op is the DatabaseManager method the caller
\* is in (NoOp for a caller that uses the pool itself, which is followed no
\* further than its release), tx the call Connection.__exit__ has made on
\* the connection, kept for the method to go on with after the with-block.
NoOp == "none"

\* threading.RLock with no owner
NoThread == 0

IdleThread == [pc |-> "idle", c |-> NoConn, t0 |-> 0, op |-> NoOp, tx |-> "none"]

\* ------------------------------------------------------------------- Init
InitCore ==
    /\ item = [i \in Items |-> NewItem]
    /\ running = FALSE
    /\ task = NoTask
    /\ tasks = [t \in TaskIds |-> IdleTask]
    /\ stopPending = 0
    /\ last_send_time = 0
    /\ lastRem = NoKey
    /\ scenario = FALSE
    /\ lastOk = NoTime
    /\ connections = <<>>
    /\ connection_count = 0
    /\ conn = [c \in ConnIds |-> NoConnection]
    /\ thr = [t \in Threads |-> IdleThread]
    /\ lastExc = "none"
    /\ lock = NoThread
    /\ rq = NewRequestQueue

InitAll ==
    /\ InitCore
    /\ uq = NewUQueue("message")

\* time.time() is far beyond rate_limit when the queue is constructed
Init ==
    /\ now = RateLimit
    /\ InitAll

\* the pool's runs span PoolHorizon ticks
PoolInit ==
    /\ now = MaxTime - PoolHorizon
    /\ InitAll

\* ---------------------------------------------------------------- actions
\* a tick passes: every running sleep has one tick less to go
Tick ==
    /\ now < MaxTime
    /\ now' = now + 1
    /\ tasks' = [t \in TaskIds |->
                    IF tasks[t].pc = "sleep" /\ tasks[t].left > 0
                    THEN [tasks[t] EXCEPT !.left = tasks[t].left - 1]
                    ELSE tasks[t]]
    /\ lastOk' = IF lastOk # NoTime /\ now + 1 - lastOk < RateLimit
                 THEN lastOk ELSE NoTime
    /\ UNCHANGED <<pvars, rq, uq, item, running, task, stopPending, last_send_time,
                   lastRem, scenario>>

\* the three-item scenario: every item is as put() made it
Untouched(m) == m.st = "queued" /\ m.attempts = 0

IsScenario(it) ==
    /\ \A j \in 1..3 : Untouched(it[j])
    /\ it[1].priority = LOW /\ it[2].priority = HIGH /\ it[3].priority = NORMAL
    /\ it[1].scheduled_time = it[2].scheduled_time
    /\ it[2].scheduled_time = it[3].scheduled_time

\* a put() on a queue that holds at most one item
PutBounded(i, p, d) ==
    /\ item[i].st = "new"
    /\ \A j \in Items : j < i => item[j].st # "new"
    /\ Cardinality(Queued) < 1
    /\ item' = [item EXCEPT ![i] = QueuedMessage(p, d)]
    /\ scenario' = (scenario \/ (i = 3 /\ IsScenario(item')))
    /\ UNCHANGED <<pvars, rq, uq, now, running, task, tasks, stopPending, last_send_time,
                   lastRem, lastOk>>

\* MessageQueue.put: items are numbered in the order they are put
Put(i, p, d) ==
    /\ item[i].st = "new"
    /\ \A j \in Items : j < i => item[j].st # "new"
    /\ item' = [item EXCEPT ![i] = QueuedMessage(p, d)]
    /\ scenario' = (scenario \/ (i = 3 /\ IsScenario(item')))
    /\ UNCHANGED <<pvars, rq, uq, now, running, task, tasks, stopPending, last_send_time,
                   lastRem, lastOk>>

\* MessageQueue.start
Start ==
    IF running
    THEN UNCHANGED vars
    ELSE \E t \in FreeTasks :
            /\ \A u \in FreeTasks : t <= u
            /\ running' = TRUE
            /\ task' = t
            /\ tasks' = [tasks EXCEPT ![t] = [IdleTask EXCEPT !.pc = "sleep"]]
            /\ UNCHANGED <<pvars, rq, uq, now, item, stopPending, last_send_time,
                           lastRem, scenario, lastOk>>

\* a cancellation that also empties the queue
CancelledFlush(t) ==
    /\ tasks' = [tasks EXCEPT ![t] = IdleTask]
    /\ item' = [i \in Items |->
                  IF item[i].st \in {"queued", "flight"}
                  THEN Gone(item[i], "lost") ELSE item[i]]

\* the effect of task.cancel() on the task: CancelledError is thrown at the
\* await the task is suspended in; it is no Exception, so neither
\* _send_message nor the loop's handler catches it.  An item whose transport
\* call was in flight has left the queue and is not put back.
Cancelled(t) ==
    /\ tasks' = [tasks EXCEPT ![t] = IdleTask]
    /\ item' = IF tasks[t].pc = "send"
               THEN [item EXCEPT ![tasks[t].cur] = Gone(item[tasks[t].cur], "lost")]
               ELSE item

\* MessageQueue.stop up to `await self.task`
Stop ==
    IF ~running
    THEN UNCHANGED vars
    ELSE /\ running' = FALSE
         /\ IF task # NoTask
            THEN /\ stopPending < MaxStopping
                 /\ Cancelled(task)
                 /\ stopPending' = stopPending + 1
            ELSE UNCHANGED <<tasks, item, stopPending>>
         /\ UNCHANGED <<pvars, rq, uq, now, task, last_send_time, lastRem, scenario, lastOk>>

\* MessageQueue.stop after `await self.task`: self.task = None
StopEnd ==
    /\ stopPending > 0
    /\ stopPending' = stopPending - 1
    /\ task' = NoTask
    /\ UNCHANGED <<pvars, rq, uq, now, item, running, tasks, last_send_time,
                   lastRem, scenario, lastOk>>

\* the task is about to evaluate `while self.running`: it was just created,
\* or its sleep is over
Awake(t) == tasks[t].pc = "sleep" /\ tasks[t].left = 0

\* `while self.running` is false: the coroutine returns
LoopExit(t) ==
    /\ Awake(t)
    /\ ~running
    /\ tasks' = [tasks EXCEPT ![t] = IdleTask]
    /\ UNCHANGED <<pvars, rq, uq, now, item, running, task, stopPending, last_send_time,
                   lastRem, scenario, lastOk>>

\* an idle test that does not look at the head's scheduled_time
MustWaitUnscheduled(h) ==
    \/ Queued = {}
    \/ now - last_send_time < RateLimit

\* the three `await asyncio.sleep(0.1); continue` branches
MustWait(h) ==
    \/ Queued = {}
    \/ now - last_send_time < RateLimit
    \/ item[h].scheduled_time > now

LoopIdle(t) ==
    /\ Awake(t)
    /\ running
    /\ \/ Queued = {}
       \/ \E h \in Heads : MustWait(h)
    /\ tasks' = [tasks EXCEPT ![t] = [IdleTask EXCEPT !.pc = "sleep"]]
    /\ UNCHANGED <<pvars, rq, uq, now, item, running, task, stopPending, last_send_time,
                   lastRem, scenario, lastOk>>

\* an error in an iteration that ends the task
LoopErrorFatal(t, d) ==
    /\ Awake(t)
    /\ running
    /\ tasks' = [tasks EXCEPT ![t] = IdleTask]
    /\ UNCHANGED <<pvars, rq, uq, now, item, running, task, stopPending, last_send_time,
                   lastRem, scenario, lastOk>>

\* an Exception raised in an iteration before an item is taken out: the
\* loop's handler logs it and sleeps 1.0 s, then `while self.running` again
LoopError(t, d) ==
    /\ Awake(t)
    /\ running
    /\ tasks' = [tasks EXCEPT ![t] = [IdleTask EXCEPT !.pc = "sleep", !.left = d]]
    /\ UNCHANGED <<pvars, rq, uq, now, item, running, task, stopPending, last_send_time,
                   lastRem, scenario, lastOk>>

\* self.queue.get() and the call of _send_message, up to its await
LoopSend(t, h) ==
    /\ Awake(t)
    /\ running
    /\ h \in Heads
    /\ ~MustWait(h)
    /\ item' = [item EXCEPT ![h].st = "flight",
                            ![h].attempts = item[h].attempts + 1]
    /\ tasks' = [tasks EXCEPT ![t] =
                    [pc |-> "send", left |-> 0, cur |-> h,
                     soon |-> lastOk # NoTime /\ now - lastOk < RateLimit]]
    /\ lastRem' = Key(item[h])
    /\ UNCHANGED <<pvars, rq, uq, now, running, task, stopPending, last_send_time,
                   scenario, lastOk>>

\* a result that takes a missing response for a delivery
SuccessUnlessEmpty(resp) == resp \in {"ok", "none"}

\* _send_message's result
Success(resp) == resp = "ok"

\* a retry decision that never gives up
RetryAlways(success, m) == ~success

\* a retry decision that allows one retry more
RetryOnceMore(success, m) == ~success /\ m.retry_count <= m.max_retries

\* a retry decision that allows one retry less
RetryOnceLess(success, m) == ~success /\ m.retry_count < m.max_retries - 1

\* the retry decision of _process_queue
Retry(success, m) == ~success /\ m.retry_count < m.max_retries

\* a retry that does not count itself
AfterAttemptUncounted(success, m) ==
    IF ~success /\ m.retry_count < m.max_retries
    THEN [m EXCEPT !.scheduled_time = now + RetryDelay, !.st = "queued"]
    ELSE [NewItem EXCEPT !.st = IF success THEN "done" ELSE "dropped",
                         !.retry_count = m.retry_count,
                         !.attempts = m.attempts]

\* the item after the attempt
AfterAttempt(success, m) ==
    IF Retry(success, m)
    THEN [m EXCEPT !.retry_count = m.retry_count + 1,
                   !.scheduled_time = now + RetryDelay,
                   !.st = "queued"]
    ELSE Gone(m, IF success THEN "done" ELSE "dropped")

\* an iteration that stamps last_send_time after a successful send only
SendDoneStampOnSuccess(t, resp, d) ==
    /\ tasks[t].pc = "send"
    /\ LET h == tasks[t].cur
       IN item' = [item EXCEPT ![h] = AfterAttempt(Success(resp), item[h])]
    /\ last_send_time' = IF Success(resp) THEN now ELSE last_send_time
    /\ tasks' = [u \in TaskIds |->
                    IF u = t
                    THEN [IdleTask EXCEPT !.pc = "sleep", !.left = d]
                    ELSE IF Success(resp) /\ tasks[u].pc = "send"
                    THEN [tasks[u] EXCEPT !.soon = TRUE]
                    ELSE tasks[u]]
    /\ lastOk' = IF Success(resp) THEN now ELSE lastOk
    /\ UNCHANGED <<pvars, rq, uq, now, running, task, stopPending, lastRem, scenario>>

\* the transport call returns: the rest of the iteration, up to the sleep
SendDone(t, resp, d) ==
    /\ tasks[t].pc = "send"
    /\ LET h == tasks[t].cur
       IN item' = [item EXCEPT ![h] = AfterAttempt(Success(resp), item[h])]
    /\ last_send_time' = now
    /\ tasks' = [u \in TaskIds |->
                    IF u = t
                    THEN [IdleTask EXCEPT !.pc = "sleep", !.left = d]
                    ELSE IF Success(resp) /\ tasks[u].pc = "send"
                    THEN [tasks[u] EXCEPT !.soon = TRUE]
                    ELSE tasks[u]]
    /\ lastOk' = IF Success(resp) THEN now ELSE lastOk
    /\ UNCHANGED <<pvars, rq, uq, now, running, task, stopPending, lastRem, scenario>>

Next ==
    \/ Tick
    \/ \E i \in ConcItems, p \in Priorities, d \in Delays : Put(i, p, d)
    \/ Start
    \/ Stop
    \/ StopEnd
    \/ \E t \in TaskIds : LoopExit(t)
    \/ \E t \in TaskIds : LoopIdle(t)
    \/ \E t \in TaskIds, d \in BackoffDelays : LoopError(t, d)
    \/ \E t \in TaskIds, h \in Items : LoopSend(t, h)
    \/ \E t \in TaskIds, resp \in Responses, d \in JitterDelays : SendDone(t, resp, d)

\* start() and stop() called by any number of coroutines, NumConcItems items
Spec == Init /\ [][Next]_vars

\* start() and stop() called by one coroutine, as core/bot.py does: a stop()
\* has returned before the next start() is called.  Every loop task is then
\* the one self.task names, stop() cancels it, and no task lives to see
\* `while self.running` false: LoopExit has no step here.
SeqStart == stopPending = 0 /\ Start

SeqNext ==
    \/ Tick
    \/ \E i \in Items, p \in Priorities, d \in Delays : Put(i, p, d)
    \/ SeqStart
    \/ Stop
    \/ StopEnd
    \/ \E t \in TaskIds : LoopIdle(t)
    \/ \E t \in TaskIds, d \in BackoffDelays : LoopError(t, d)
    \/ \E t \in TaskIds, h \in Items : LoopSend(t, h)
    \/ \E t \in TaskIds, resp \in Responses, d \in JitterDelays : SendDone(t, resp, d)

SeqSpec == Init /\ [][SeqNext]_vars

\* ------------------------------------------------- the loop left running
\* start() is called once and stop() never; the producers make their
\* NumConcItems put() calls, and the start() call is made, no later than
\* LivePutBy.  Time runs on until every attempt the items can need has had
\* its longest sleep.  A tick is 2 s: a task that is ready runs, and a
\* transport call returns, before the next tick.
LiveHorizon ==
    LivePutBy + MaxDelay + NumConcItems * (DefaultMaxRetries + 1) * JitterMax + 1

\* a task can take an item out now
Ready == \E t \in TaskIds, h \in Heads : Awake(t) /\ running /\ ~MustWait(h)

\* a transport call is in flight
InCall == \E t \in TaskIds : tasks[t].pc = "send"

LiveTick ==
    /\ now < LiveHorizon
    /\ ~Ready /\ ~InCall
    /\ now' = now + 1
    /\ tasks' = [t \in TaskIds |->
                    IF tasks[t].pc = "sleep" /\ tasks[t].left > 0
                    THEN [tasks[t] EXCEPT !.left = tasks[t].left - 1]
                    ELSE tasks[t]]
    /\ lastOk' = IF lastOk # NoTime /\ now + 1 - lastOk < RateLimit
                 THEN lastOk ELSE NoTime
    /\ UNCHANGED <<pvars, rq, uq, item, running, task, stopPending, last_send_time,
                   lastRem, scenario>>

LivePut(i, p, d) == now <= LivePutBy /\ Put(i, p, d)

LiveStart == now <= LivePutBy /\ ~running /\ Start

LiveNext ==
    \/ LiveTick
    \/ \E i \in ConcItems, p \in Priorities, d \in Delays : LivePut(i, p, d)
    \/ LiveStart
    \/ \E t \in TaskIds : LoopIdle(t)
    \/ \E t \in TaskIds, h \in Items : LoopSend(t, h)
    \/ \E t \in TaskIds, resp \in Responses, d \in JitterDelays : SendDone(t, resp, d)

\* the event loop runs every task that is ready, time passes, and the
\* transport call returns
LiveSpec ==
    /\ Init
    /\ [][LiveNext]_vars
    /\ WF_vars(LiveTick)
    /\ WF_vars(\E t \in TaskIds, h \in Items : LoopSend(t, h))
    /\ WF_vars(\E t \in TaskIds, resp \in Responses, d \in JitterDelays :
                  SendDone(t, resp, d))

\* ----------------------------------------- RequestQueue beside MessageQueue
\* core/bot.py builds one MessageQueue and one RequestQueue.  The request
\* queue is followed with one request, start() and stop() called in turn (a
\* stop() has returned before the next call), and its sleeps kept as the
\* time they end.
RPut(d) ==
    /\ rq.req.st = "new"
    /\ rq' = [rq EXCEPT !.req = QueuedMessage(NORMAL, d)]
    /\ UNCHANGED <<now, qvars, pvars, uq>>

\* RequestQueue.start
RStart ==
    /\ ~rq.running
    /\ rq' = [rq EXCEPT !.running = TRUE, !.pc = "sleep", !.wake = now]
    /\ UNCHANGED <<now, qvars, pvars, uq>>

\* RequestQueue.stop: the task is cancelled and awaited; a request whose
\* call was in flight is not put back
RStop ==
    /\ rq.running
    /\ rq' = [rq EXCEPT !.running = FALSE, !.pc = "none", !.wake = 0,
                         !.req = IF rq.pc = "send" THEN Gone(rq.req, "lost")
                                 ELSE rq.req]
    /\ UNCHANGED <<now, qvars, pvars, uq>>

\* RequestQueue._process_queue up to the call of _process_request
RLoopSend ==
    /\ rq.running
    /\ rq.pc = "sleep" /\ now >= rq.wake
    /\ rq.req.st = "queued"
    /\ now - rq.last_process_time >= RateLimit
    /\ rq.req.scheduled_time <= now
    /\ rq' = [rq EXCEPT !.pc = "send", !.wake = 0, !.req.st = "flight",
                         !.req.attempts = rq.req.attempts + 1]
    /\ UNCHANGED <<now, qvars, pvars, uq>>

\* a request queue that stamps the message queue's pacing time as well
RSendDoneShared(resp, d) ==
    /\ rq.pc = "send"
    /\ rq' = [rq EXCEPT !.pc = "sleep", !.wake = now + d,
                         !.last_process_time = now,
                         !.req = AfterAttempt(Success(resp), rq.req)]
    /\ last_send_time' = now
    /\ UNCHANGED <<now, pvars, uq, item, running, task, tasks, stopPending,
                   lastRem, scenario, lastOk>>

\* _process_request returns: the rest of the iteration, up to the sleep
RSendDone(resp, d) ==
    /\ rq.pc = "send"
    /\ rq' = [rq EXCEPT !.pc = "sleep", !.wake = now + d,
                         !.last_process_time = now,
                         !.req = AfterAttempt(Success(resp), rq.req)]
    /\ UNCHANGED <<now, qvars, pvars, uq>>

TwoNext ==
    \/ Tick
    \/ \E d \in Delays : Put(1, NORMAL, d)
    \/ SeqStart
    \/ Stop
    \/ StopEnd
    \/ \E t \in TaskIds : LoopIdle(t)
    \/ \E t \in TaskIds : LoopSend(t, 1)
    \/ \E t \in TaskIds, resp \in Responses, d \in JitterDelays : SendDone(t, resp, d)
    \/ \E d \in Delays : RPut(d)
    \/ RStart
    \/ RStop
    \/ RLoopSend
    \/ \E resp \in Responses, d \in JitterDelays : RSendDone(resp, d)

TwoSpec == Init /\ [][TwoNext]_vars

\* ------------------------------------------- MessageQueue and RequestQueue
\* ------------------------------------------------------ of utils/queue.py
\* The two classes have the same __init__, start, stop and _process_queue;
\* they differ in what put gives back and in what the retry loop does with
\* the outcome (_send_message returns a bool, _execute_request completes the
\* future).  The queue object uq is one of them, uq.kind says which.  All
\* coroutines run on one event loop, so an action is the code between two
\* awaits.  How long a sleep lasts is not followed: a sleeping task goes on
\* at some later step.  The operators below take the queue object u and
\* give the object after the code has run.

\* asyncio.Queue.full() with maxsize > 0
UFull(u) == Len(u.queue) >= MaxQueueSize

FreeUTasks(u) == {t \in UTasks : u.tk[t].pc = "none"}

\* the task object asyncio.create_task makes
NewUTask(u) == CHOOSE t \in FreeUTasks(u) : \A x \in FreeUTasks(u) : t <= x

\* start()
Started(u) ==
    IF u.running
    THEN u
    ELSE [u EXCEPT !.running = TRUE, !.task = NewUTask(u),
                   !.tk[NewUTask(u)] = [IdleUTask EXCEPT !.pc = "created"]]

\* task.cancel(): a task that has not run yet never runs its body, a
\* suspended one gets CancelledError when it runs next, a finished one is
\* left alone
CancelTask(u, t) ==
    IF t = NoTask \/ u.tk[t].pc = "none"
    THEN u
    ELSE IF u.tk[t].pc = "created"
    THEN [u EXCEPT !.tk[t] = IdleUTask]
    ELSE [u EXCEPT !.tk[t].cancelled = TRUE]

\* stop() when running
Stopped(u) == [CancelTask(u, u.task) EXCEPT !.running = FALSE, !.task = NoTask]

\* the entry as put makes it; RequestQueue.put has created its future
Entry(u, p) ==
    [NewEntry EXCEPT !.st = "queued", !.priority = p,
                     !.fut = IF u.kind = "request" THEN "pending" ELSE "none"]

\* `await self.queue.put(...)`: asyncio.Queue.put appends at the end when
\* the queue is not full and suspends the caller while it is
QueuePut(u, e, p) ==
    IF UFull(u)
    THEN [u EXCEPT !.ent[e] = [Entry(u, p) EXCEPT !.st = "blocked"]]
    ELSE [u EXCEPT !.queue = Append(u.queue, e), !.ent[e] = Entry(u, p)]

\* put finds the queue full: MessageQueue.put returns False,
\* RequestQueue.put returns the future with RuntimeError set
Rejected(u, e) ==
    [u EXCEPT !.ent[e] =
        [NewEntry EXCEPT !.st = "rejected",
                         !.fut = IF u.kind = "request" THEN "exception" ELSE "none"]]

\* a put that does not look at queue.full()
UtilPutUnchecked(e, p) ==
    /\ uq.ent[e].st = "new"
    /\ \A x \in UEntries : uq.ent[x].st = "new" => e <= x
    /\ uq.kind = "request" => p = 0
    /\ uq.running \/ FreeUTasks(uq) # {} \/ UFull(uq)
    /\ uq' = IF UFull(uq) THEN QueuePut(uq, e, p) ELSE Started(QueuePut(uq, e, p))
    /\ UNCHANGED <<now, qvars, pvars, rq>>

\* MessageQueue.put / RequestQueue.put of entry e, the entries being put in
\* the order of their numbers; a request carries no priority
UtilPut(e, p) ==
    /\ uq.ent[e].st = "new"
    /\ \A x \in UEntries : uq.ent[x].st = "new" => e <= x
    /\ uq.kind = "request" => p = 0
    /\ uq.running \/ FreeUTasks(uq) # {} \/ UFull(uq)
    /\ uq' = IF UFull(uq) THEN Rejected(uq, e) ELSE Started(QueuePut(uq, e, p))
    /\ UNCHANGED <<now, qvars, pvars, rq>>

\* start() called when the processor is not running
UtilStart ==
    /\ ~uq.running
    /\ FreeUTasks(uq) # {}
    /\ uq' = Started(uq)
    /\ UNCHANGED <<now, qvars, pvars, rq>>

\* stop() called when the processor is running
UtilStop ==
    /\ uq.running
    /\ uq' = Stopped(uq)
    /\ UNCHANGED <<now, qvars, pvars, rq>>

\* the loop is left: `finally: self.running = False`, and the task is done
Finish(u, t) == [u EXCEPT !.running = FALSE, !.tk[t] = IdleUTask]

\* `await self.queue.get()` and on to the random delay: the first entry of
\* the queue is taken out; on an empty queue the task is suspended in get()
Take(u, t) ==
    IF u.queue = <<>>
    THEN [u EXCEPT !.tk[t] = [IdleUTask EXCEPT !.pc = "get"]]
    ELSE [u EXCEPT !.queue = Tail(u.queue),
                   !.ent[Head(u.queue)].st = "flight",
                   !.tk[t] = [IdleUTask EXCEPT !.pc = "delay", !.cur = Head(u.queue)]]

\* _process_queue from `while self.running` to the next await
LoopTop(u, t) ==
    IF ~u.running
    THEN Finish(u, t)
    ELSE IF u.queue = <<>>
    THEN [u EXCEPT !.tk[t] = [IdleUTask EXCEPT !.pc = "idle"]]
    ELSE IF now - u.last_time < MinInterval
    THEN [u EXCEPT !.tk[t] = [IdleUTask EXCEPT !.pc = "pace"]]
    ELSE Take(u, t)

\* the task runs for the first time, or again after sleep(0.1) or after the
\* sleep(1) of the loop's `except Exception`
ProcessTop(t) ==
    /\ uq.tk[t].pc \in {"created", "idle", "err"}
    /\ ~uq.tk[t].cancelled
    /\ uq' = LoopTop(uq, t)
    /\ UNCHANGED <<now, qvars, pvars, rq>>

\* the sleep up to min_interval is over
ProcessPaced(t) ==
    /\ uq.tk[t].pc = "pace"
    /\ ~uq.tk[t].cancelled
    /\ uq' = Take(uq, t)
    /\ UNCHANGED <<now, qvars, pvars, rq>>

\* a task suspended in queue.get() is given an entry
ProcessGot(t) ==
    /\ uq.tk[t].pc = "get"
    /\ ~uq.tk[t].cancelled
    /\ uq.queue # <<>>
    /\ uq' = Take(uq, t)
    /\ UNCHANGED <<now, qvars, pvars, rq>>

\* round i of `for i in range(self.retry_times)`: func (the bot's API) is
\* called
Invoke(u, t, i) ==
    [u EXCEPT !.ent[u.tk[t].cur].calls = @ + 1, !.tk[t].pc = "call", !.tk[t].i = i]

\* the random delay is over: _send_message / _execute_request begins
ProcessDelayed(t) ==
    /\ uq.tk[t].pc = "delay"
    /\ ~uq.tk[t].cancelled
    /\ uq' = Invoke(uq, t, 0)
    /\ UNCHANGED <<now, qvars, pvars, rq>>

\* _send_message / _execute_request has returned: last_send_time is
\* stamped, task_done() called, and the loop goes round
Returned(u, t, outcome) ==
    LoopTop([u EXCEPT !.ent[u.tk[t].cur].st = outcome, !.last_time = now], t)

\* an exception leaves the retry loop and is caught by the `except
\* Exception` of _process_queue, which sleeps 1 s
Escaped(u, t) ==
    [u EXCEPT !.ent[u.tk[t].cur].st = "error",
              !.tk[t] = [IdleUTask EXCEPT !.pc = "err"]]

\* a retry loop that sets the exception on the future after every failed
\* call
FailedSetsAlways(u, t) ==
    LET e == u.tk[t].cur
    IN IF u.kind = "request"
       THEN IF u.ent[e].fut = "pending"
            THEN [u EXCEPT !.ent[e].fut = "exception",
                           !.ent[e].futAt = u.ent[e].calls,
                           !.tk[t].pc = "backoff"]
            ELSE Escaped(u, t)
       ELSE [u EXCEPT !.tk[t].pc = "backoff"]

\* the `except Exception` of the retry loop: in _execute_request the last
\* round sets the exception on the future (InvalidStateError if the future
\* is already completed), then every round sleeps 1 s
Failed(u, t) ==
    LET e == u.tk[t].cur
    IN IF u.kind = "request" /\ u.tk[t].i = RetryTimes - 1
       THEN IF u.ent[e].fut = "pending"
            THEN [u EXCEPT !.ent[e].fut = "exception",
                           !.ent[e].futAt = u.ent[e].calls,
                           !.tk[t].pc = "backoff"]
            ELSE Escaped(u, t)
       ELSE [u EXCEPT !.tk[t].pc = "backoff"]

\* the call returns (ok) or raises.  _send_message returns True;
\* _execute_request sets the result on the future, which raises
\* InvalidStateError inside the try when the future is already completed,
\* and returns
CallDone(t, ok) ==
    /\ uq.tk[t].pc = "call"
    /\ ~uq.tk[t].cancelled
    /\ LET e == uq.tk[t].cur
       IN uq' = IF ~ok
                THEN Failed(uq, t)
                ELSE IF uq.kind = "message"
                THEN Returned(uq, t, "sent")
                ELSE IF uq.ent[e].fut = "pending"
                THEN Returned([uq EXCEPT !.ent[e].fut = "result",
                                          !.ent[e].futAt = uq.ent[e].calls],
                              t, "sent")
                ELSE Failed(uq, t)
    /\ UNCHANGED <<now, qvars, pvars, rq>>

\* the sleep(1) after a failed call is over: the next round, or the end of
\* the retry loop (return False / return None)
BackoffDone(t) ==
    /\ uq.tk[t].pc = "backoff"
    /\ ~uq.tk[t].cancelled
    /\ uq' = IF uq.tk[t].i + 1 < RetryTimes
             THEN Invoke(uq, t, uq.tk[t].i + 1)
             ELSE Returned(uq, t, "failed")
    /\ UNCHANGED <<now, qvars, pvars, rq>>

\* a cancelled task runs again: CancelledError is raised at its await,
\* `except asyncio.CancelledError` (the inner one breaks, the outer one
\* logs) leads to the finally clause; the entry it had taken out is gone
ProcessCancelled(t) ==
    /\ uq.tk[t].cancelled
    /\ LET e == uq.tk[t].cur
       IN uq' = Finish(IF e = NoItem THEN uq
                       ELSE [uq EXCEPT !.ent[e].st = "lost"], t)
    /\ UNCHANGED <<now, qvars, pvars, rq>>

UtilNext ==
    \/ Tick
    \/ \E e \in UEntries, p \in UPriorities : UtilPut(e, p)
    \/ UtilStart
    \/ UtilStop
    \/ \E t \in UTasks : ProcessTop(t)
    \/ \E t \in UTasks : ProcessPaced(t)
    \/ \E t \in UTasks : ProcessGot(t)
    \/ \E t \in UTasks : ProcessDelayed(t)
    \/ \E t \in UTasks, ok \in BOOLEAN : CallDone(t, ok)
    \/ \E t \in UTasks : BackoffDone(t)
    \/ \E t \in UTasks : ProcessCancelled(t)

\* the queue object is a MessageQueue or a RequestQueue; its runs span
\* UtilHorizon ticks
UtilInit ==
    /\ now = MaxTime - UtilHorizon
    /\ InitCore
    /\ uq \in {NewUQueue(k) : k \in UKinds}

UtilSpec == UtilInit /\ [][UtilNext]_vars

\* ------------------------------------------------- properties of the queue
\* the loop takes item h out of the queue in this step
Removed(h) == item[h].st = "queued" /\ item'[h].st = "flight"

\* the transport call on item h returns in this step
Attempted(h) == item[h].st = "flight" /\ item'[h].st # "flight"

\* C1, as stated: the items the loop removes come out in non-decreasing
\* (priority, scheduled_time) order, whatever the sequence of put() calls.
C1_RemovalsNonDecreasing ==
    [][\A h \in Items :
          Removed(h) /\ lastRem # NoKey => KeyLe(lastRem, Key(item[h]))]_vars

\* C1, amended: every removal takes an item whose (priority, scheduled_time)
\* is minimal among the items queued at that moment, and three items put
\* with priorities LOW, HIGH, NORMAL and equal scheduled_time before any of
\* them is removed are first removed in the order HIGH, NORMAL, LOW.
C1_RemovesMinimum ==
    /\ [][\A h \in Items :
            Removed(h) => \A j \in Queued : KeyLe(Key(item[h]), Key(item[j]))]_vars
    /\ [](scenario =>
            /\ item[1].attempts > 0 => item[3].attempts > 0
            /\ item[3].attempts > 0 => item[2].attempts > 0)

\* the LOW item of the scenario has been removed, after the other two
C1_Witness == scenario /\ item[1].attempts > 0

\* the next item a producer creates
NextNew(i) == item[i].st = "new" /\ \A j \in Items : j < i => item[j].st # "new"

\* C11: put() is never refused: whatever is queued and whether or not the
\* loop runs, the next item can be put with any priority and delay, and the
\* put adds it to the queue and takes nothing out.
C11_PutNeverRejects ==
    /\ [](\A i \in Items, p \in Priorities, d \in Delays :
            NextNew(i) => ENABLED Put(i, p, d))
    /\ [][\A i \in Items :
            item[i].st = "new" /\ item'[i].st # "new"
            => Queued' = Queued \cup {i}]_vars

\* every item was put, none has left the queue yet, and the loop runs
C11_Witness ==
    /\ running
    /\ \A i \in Items : Untouched(item[i])
    /\ \E i \in Items : item[i].scheduled_time - MaxDelay > RateLimit

\* the _process_queue tasks that have not finished
Loops == {t \in TaskIds : tasks[t].pc # "none"}

\* C12: at most one pacing loop is alive, and at most one transport call is
\* in flight, whatever the interleaving of start() and stop() calls.
C12_OneLoop ==
    /\ Cardinality(Loops) <= 1
    /\ Cardinality({t \in TaskIds : tasks[t].pc = "send"}) <= 1

\* C13: a transport call in flight is never cut short: a task that is in the
\* call stays a task until the call has returned, and the item of the call
\* is then delivered, queued again or dropped.
C13_AttemptCompletes ==
    [][/\ \A t \in TaskIds : tasks[t].pc = "send" => tasks'[t].pc # "none"
       /\ \A i \in Items :
            item[i].st = "flight"
            => item'[i].st \in {"flight", "done", "queued", "dropped"}]_vars

\* C14: stop() takes nothing out of the queue; while the queue is stopped no
\* item is removed for delivery; and start() leaves the items as they are
\* and creates the loop that goes on with them.
C14_StopKeepsQueue ==
    [][/\ running /\ ~running' => Queued' = Queued
       /\ ~running => \A h \in Items : ~Removed(h)
       /\ ~running /\ running' =>
            /\ item' = item
            /\ task' \in TaskIds
            /\ tasks'[task'].pc = "sleep"]_vars

\* stop() has returned after the loop had made a removal, and an item is
\* left in the queue
C14_Witness ==
    /\ ~running
    /\ stopPending = 0
    /\ Loops = {}
    /\ lastRem # NoKey
    /\ Queued # {}

\* C15: a transport call that raises, one that returns a status other than
\* "ok" and one that returns no response are handled alike: whatever state
\* the one leads to, the others lead to, item, pacing state and all; and
\* none of them touches an item that is not the call's own.
C15_FailuresAlike ==
    [][\A t \in TaskIds, d \in JitterDelays :
          /\ SendDone(t, "raise", d) <=> SendDone(t, "failed", d)
          /\ SendDone(t, "raise", d) <=> SendDone(t, "none", d)
          /\ SendDone(t, "raise", d) =>
                \A i \in Items : i # tasks[t].cur => item'[i] = item[i]]_vars

\* a failed attempt has just been handled: its item is back in the queue
\* with one retry counted
C15_Witness ==
    \E i \in Items :
        /\ item[i].st = "queued"
        /\ item[i].retry_count = 1
        /\ item[i].scheduled_time = now + RetryDelay
        /\ last_send_time = now

\* C16: no error ends the loop.  A task ends only in a step that leaves
\* running false (stop(), or the loop's own exit once running is false);
\* after an error in an iteration, and after a transport call that raised,
\* the task sleeps and then goes on, with the items as they were.
C16_LoopSurvives ==
    [][\A t \in TaskIds :
          /\ tasks[t].pc # "none" /\ tasks'[t].pc = "none" => ~running'
          /\ \A d \in BackoffDelays :
                LoopError(t, d) => tasks'[t].pc = "sleep" /\ Queued' = Queued
          /\ \A d \in JitterDelays :
                SendDone(t, "raise", d) => tasks'[t].pc = "sleep"]_vars

\* a transport call raised, its item is queued again, and the loop that made
\* the call is alive and asleep while the queue is running
C16_Witness ==
    /\ running
    /\ task \in Loops
    /\ tasks[task].pc = "sleep"
    /\ last_send_time = now
    /\ \E i \in Items : item[i].st = "queued" /\ item[i].retry_count > 0

\* C2: a transport call that ends in a successful delivery began no earlier
\* than rate_limit after the previous successful delivery completed.
C2_SuccessesApart ==
    [][\A t \in TaskIds :
          tasks[t].pc = "send" /\ tasks'[t].pc = "sleep"
          /\ item'[tasks[t].cur].st = "done"
          => ~tasks[t].soon]_vars

\* C3: retry_count never exceeds max_retries; an item whose attempt fails at
\* retry_count = max_retries leaves the queue, and a dropped item never
\* comes back.
C3_RetryBounded ==
    /\ [](\A i \in Items : item[i].retry_count <= item[i].max_retries)
    /\ [][\A i \in Items :
            /\ Attempted(i) /\ item[i].retry_count = item[i].max_retries
               => item'[i].st # "queued"
            /\ item[i].st = "dropped" => item'[i].st = "dropped"]_vars

\* an item was dropped at retry_count = max_retries
C3_Witness ==
    \E i \in Items : item[i].st = "dropped" /\ item[i].retry_count = item[i].max_retries

\* C9: an item every attempt on which fails gets max_retries + 1 attempts:
\* while it is queued it has had as many attempts as retries, it is dropped
\* at the attempt after the last retry, and nothing happens to it afterwards.
C9_AttemptsUntilDropped ==
    /\ [](\A i \in Items :
            /\ item[i].attempts <= item[i].max_retries + 1
            /\ item[i].st = "queued" => item[i].attempts = item[i].retry_count
            /\ item[i].st = "dropped" => item[i].attempts = item[i].max_retries + 1)
    /\ [][\A i \in Items : item[i].st = "dropped" => item'[i] = item[i]]_vars

\* an item was dropped after max_retries + 1 attempts
C9_Witness ==
    \E i \in Items : item[i].st = "dropped" /\ item[i].attempts = DefaultMaxRetries + 1

\* C10: an item delivered after k failed attempts was attempted k + 1 times,
\* its retry_count is k, and it is never queued or attempted again.
C10_DeliveredOnce ==
    /\ [](\A i \in Items :
            item[i].st = "done" =>
                /\ item[i].attempts = item[i].retry_count + 1
                /\ item[i].retry_count <= item[i].max_retries)
    /\ [][\A i \in Items :
            /\ Attempted(i) /\ item'[i].st = "done"
               => item'[i].retry_count = item[i].retry_count
            /\ item[i].st = "done" => item'[i] = item[i]]_vars

\* the scenario: two failures, then the delivery
C10_Witness ==
    \E i \in Items : item[i].st = "done" /\ item[i].retry_count = 2


\* ---------------------------------------------------------- ConnectionPool
\* The pool's methods run in threads.  A `with self.lock` block is one
\* action: no other locked block runs inside it, and the only writes made
\* without the lock, those of Connection.close, set one flag and one stamp.
InPool(c) == \E k \in 1..Len(connections) : connections[k] = c

Pooled == {c \in ConnIds : InPool(c)}

\* the Connection objects something still refers to
Referenced(cs, th) ==
    {c \in ConnIds : (\E k \in 1..Len(cs) : cs[k] = c) \/ (\E t \in Threads : th[t].c = c)}

\* objects nothing refers to are gone
Sweep(cn, cs, th) ==
    [c \in ConnIds |-> IF c \in Referenced(cs, th) THEN cn[c] ELSE NoConnection]

FreeConns == ConnIds \ Referenced(connections, thr)

\* `for connection in self.connections: if not connection.in_use`: the index
\* of the first idle connection, 0 if there is none
FirstIdle ==
    IF \E k \in 1..Len(connections) : ~conn[connections[k]].in_use
    THEN CHOOSE k \in 1..Len(connections) :
            /\ ~conn[connections[k]].in_use
            /\ \A j \in 1..(k - 1) : conn[connections[j]].in_use
    ELSE 0

\* the connection is handed to the caller
Hand(t, c, op) ==
    /\ conn' = [conn EXCEPT ![c].in_use = TRUE]
    /\ thr' = [thr EXCEPT ![t] = [IdleThread EXCEPT !.pc = "hold", !.c = c, !.op = op]]
    /\ UNCHANGED <<connections, connection_count>>

\* Connection.__init__ in _create_connection
NewConnection == [in_use |-> FALSE, last_used |-> now, open |-> TRUE]

\* an acquire() that creates a connection whenever none is idle, without
\* the test `self.connection_count < self.max_connections`
AcquireUncapped(t, op, created) ==
    /\ thr[t].pc = "idle"
    /\ IF FirstIdle # 0
       THEN Hand(t, connections[FirstIdle], op)
       ELSE \E c \in FreeConns :
               /\ \A d \in FreeConns : c <= d
               /\ conn' = [conn EXCEPT ![c] = [NewConnection EXCEPT !.in_use = TRUE]]
               /\ connections' = Append(connections, c)
               /\ connection_count' = connection_count + 1
               /\ thr' = [thr EXCEPT ![t] =
                           [IdleThread EXCEPT !.pc = "hold", !.c = c, !.op = op]]
    /\ lastExc' = "none"
    /\ UNCHANGED <<now, qvars, rq, uq, lock>>

\* ConnectionPool.acquire, the first locked block, called by op.  created
\* tells whether sqlite3.connect and the PRAGMAs of _create_connection
\* succeed.
Acquire(t, op, created) ==
    /\ thr[t].pc = "idle"
    /\ IF FirstIdle # 0
       THEN Hand(t, connections[FirstIdle], op) /\ lastExc' = "none"
       ELSE IF connection_count < MaxConnections
       THEN IF created
            THEN \E c \in FreeConns :
                    /\ \A d \in FreeConns : c <= d
                    /\ conn' = [conn EXCEPT ![c] = [NewConnection EXCEPT !.in_use = TRUE]]
                    /\ connections' = Append(connections, c)
                    /\ connection_count' = connection_count + 1
                    /\ thr' = [thr EXCEPT ![t] =
                                [IdleThread EXCEPT !.pc = "hold", !.c = c, !.op = op]]
                    /\ lastExc' = "none"
            ELSE /\ lastExc' = "Error"
                 /\ UNCHANGED <<connections, connection_count, conn, thr>>
       ELSE /\ thr' = [thr EXCEPT ![t] =
                        [IdleThread EXCEPT !.pc = "wait", !.t0 = now, !.op = op]]
            /\ lastExc' = "none"
            /\ UNCHANGED <<connections, connection_count, conn>>
    /\ UNCHANGED <<now, qvars, rq, uq, lock>>

\* the wait loop's condition `time.time() - start_time < self.timeout`
Waiting(t) == now - thr[t].t0 < PoolTimeout

\* one round of the wait loop: the locked scan, then time.sleep(0.1)
WaitPoll(t) ==
    /\ thr[t].pc = "wait"
    /\ Waiting(t)
    /\ IF FirstIdle # 0
       THEN Hand(t, connections[FirstIdle], thr[t].op)
       ELSE UNCHANGED <<connections, connection_count, conn, thr>>
    /\ lastExc' = "none"
    /\ UNCHANGED <<now, qvars, rq, uq, lock>>

\* an acquire() that gives up before the timeout has elapsed
WaitTimeoutEarly(t) ==
    /\ thr[t].pc = "wait"
    /\ thr' = [thr EXCEPT ![t] = IdleThread]
    /\ lastExc' = "TimeoutError"
    /\ UNCHANGED <<now, qvars, rq, uq, lock, connections, connection_count, conn>>

\* raise TimeoutError
WaitTimeout(t) ==
    /\ thr[t].pc = "wait"
    /\ ~Waiting(t)
    /\ thr' = [thr EXCEPT ![t] = IdleThread]
    /\ lastExc' = "TimeoutError"
    /\ UNCHANGED <<now, qvars, rq, uq, lock, connections, connection_count, conn>>

\* a release() without the membership test `connection in self.connections`
ReleasedUntested(cn, c) ==
    [cn EXCEPT ![c].in_use = FALSE, ![c].last_used = now]

\* ConnectionPool.release
Released(cn, c) ==
    IF InPool(c)
    THEN [cn EXCEPT ![c].in_use = FALSE, ![c].last_used = now]
    ELSE cn

\* the caller calls pool.release(connection) itself
Release(t) ==
    /\ thr[t].pc = "hold"
    /\ thr' = [thr EXCEPT ![t] = IdleThread]
    /\ conn' = Sweep(Released(conn, thr[t].c), connections, thr')
    /\ lastExc' = "none"
    /\ UNCHANGED <<now, qvars, rq, uq, lock, connections, connection_count>>

\* the call Connection.__exit__ makes: rollback() when the body raised,
\* commit() when it did not
ExitCall(raised) == IF raised THEN "rollback" ELSE "commit"

\* Connection.__exit__ up to the first statement of close().  raised: the
\* body of the with-block raised, so rollback() is called and not commit();
\* ok: that call succeeds, which it cannot on a closed handle.  When it
\* raises, close() is not reached and the caller is left without the
\* connection.
Exit(t, raised, ok) ==
    /\ thr[t].pc = "hold"
    /\ IF ok /\ conn[thr[t].c].open
       THEN /\ conn' = [conn EXCEPT ![thr[t].c].in_use = FALSE]
            /\ thr' = [thr EXCEPT ![t].pc = "close1",
                                   ![t].tx = IF thr[t].op = NoOp THEN "none"
                                             ELSE ExitCall(raised)]
            /\ lastExc' = "none"
       ELSE /\ thr' = [thr EXCEPT ![t] = IdleThread]
            /\ conn' = Sweep(conn, connections, thr')
            /\ lastExc' = "Error"
    /\ UNCHANGED <<now, qvars, rq, uq, lock, connections, connection_count>>

\* Connection.close called by the caller: self.in_use = False
Close(t) ==
    /\ thr[t].pc = "hold"
    /\ conn' = [conn EXCEPT ![thr[t].c].in_use = FALSE]
    /\ thr' = [thr EXCEPT ![t].pc = "close1"]
    /\ lastExc' = "none"
    /\ UNCHANGED <<now, qvars, rq, uq, lock, connections, connection_count>>

\* Connection.close: self.last_used = time.time()
CloseStamp(t) ==
    /\ thr[t].pc = "close1"
    /\ conn' = [conn EXCEPT ![thr[t].c].last_used = now]
    /\ thr' = [thr EXCEPT ![t].pc = "close2"]
    /\ lastExc' = "none"
    /\ UNCHANGED <<now, qvars, rq, uq, lock, connections, connection_count>>

\* Connection.close: self.pool.release(self)
CloseRelease(t) ==
    /\ thr[t].pc = "close2"
    /\ thr' = [thr EXCEPT ![t] = IdleThread]
    /\ conn' = Sweep(Released(conn, thr[t].c), connections, thr')
    /\ lastExc' = "none"
    /\ UNCHANGED <<now, qvars, rq, uq, lock, connections, connection_count>>

\* cleanup's list of idle_connections
IdleTooLong(current_time) ==
    {c \in Pooled : ~conn[c].in_use /\ current_time - conn[c].last_used > MaxIdleTime}

Without(cs, gone) == SelectSeq(cs, LAMBDA c : c \notin gone)

\* ConnectionPool.cleanup.  current_time is read before the lock is taken:
\* the clock may have moved on by the time the locked block runs.
Cleanup(current_time) ==
    /\ LET gone == IdleTooLong(current_time)
       IN /\ connections' = Without(connections, gone)
          /\ connection_count' = connection_count - Cardinality(gone)
          /\ conn' = Sweep([c \in ConnIds |->
                              IF c \in gone THEN [conn[c] EXCEPT !.open = FALSE]
                              ELSE conn[c]],
                           connections', thr)
    /\ lastExc' = "none"
    /\ UNCHANGED <<now, qvars, rq, uq, lock, thr>>

\* a close_all() that spares the connections marked in_use
CloseAllIdleOnly ==
    /\ LET gone == {c \in Pooled : ~conn[c].in_use}
       IN /\ connections' = Without(connections, gone)
          /\ connection_count' = connection_count - Cardinality(gone)
          /\ conn' = Sweep([c \in ConnIds |->
                              IF c \in gone THEN [conn[c] EXCEPT !.open = FALSE]
                              ELSE conn[c]],
                           connections', thr)
    /\ lastExc' = "none"
    /\ UNCHANGED <<now, qvars, rq, uq, lock, thr>>

\* ConnectionPool.close_all
CloseAll ==
    /\ connections' = <<>>
    /\ connection_count' = 0
    /\ conn' = Sweep([c \in ConnIds |->
                        IF c \in Pooled THEN [conn[c] EXCEPT !.open = FALSE]
                        ELSE conn[c]],
                     connections', thr)
    /\ lastExc' = "none"
    /\ UNCHANGED <<now, qvars, rq, uq, lock, thr>>

PoolNext ==
    \/ Tick
    \/ \E t \in Threads, created \in BOOLEAN : Acquire(t, NoOp, created)
    \/ \E t \in Threads : WaitPoll(t)
    \/ \E t \in Threads : WaitTimeout(t)
    \/ \E t \in Threads : Release(t)
    \/ \E t \in Threads, raised \in BOOLEAN, ok \in BOOLEAN : Exit(t, raised, ok)
    \/ \E t \in Threads : Close(t)
    \/ \E t \in Threads : CloseStamp(t)
    \/ \E t \in Threads : CloseRelease(t)
    \/ \E current_time \in (now - 1)..now : Cleanup(current_time)
    \/ CloseAll

PoolSpec == PoolInit /\ [][PoolNext]_vars

\* -------------------------------------------------------- DatabaseManager
\* execute, execute_many, query and query_one run one statement inside
\* `with self.pool.acquire() as conn:`; backup, vacuum and optimize do the
\* same inside try / except Exception.
DbOps == {"statement", "maintenance"}

\* what the method gives its caller: failed tells whether an exception was
\* raised inside it
MethodResult(op, failed) ==
    IF op = "maintenance"
    THEN IF failed THEN "False" ELSE "True"
    ELSE IF failed THEN "raise" ELSE "value"

\* the with-block of a method ends: its statement has raised, as every
\* statement on a closed handle does, or it has not
DbExit(t, raised, ok) ==
    /\ thr[t].pc = "hold"
    /\ raised \/ conn[thr[t].c].open
    /\ Exit(t, raised, ok)

\* the methods are called from any thread; cleanup() is called by the
\* manager's timer and close_all() by DatabaseManager.close()
DbNext ==
    \/ Tick
    \/ \E t \in DbThreads, op \in DbOps, created \in BOOLEAN : Acquire(t, op, created)
    \/ \E t \in DbThreads : WaitPoll(t)
    \/ \E t \in DbThreads : WaitTimeout(t)
    \/ \E t \in DbThreads, raised \in BOOLEAN, ok \in BOOLEAN : DbExit(t, raised, ok)
    \/ \E t \in DbThreads : CloseStamp(t)
    \/ \E t \in DbThreads : CloseRelease(t)
    \/ \E current_time \in (now - 1)..now : Cleanup(current_time)
    \/ CloseAll

DbSpec == PoolInit /\ [][DbNext]_vars

\* ------------------------------------- the pool as the with-statement's manager
\* `with db_manager.transaction() as conn:`: transaction() returns the pool,
\* whose __enter__ is acquire() and whose __exit__ works on
\* self.connections[-1].
PoolOp == "transaction"

PoolEnter(t, created) == Acquire(t, PoolOp, created)

\* self.connections[-1]
LastConnection == connections[Len(connections)]

\* ConnectionPool.__exit__ up to the first statement of close(): rollback()
\* or commit() on self.connections[-1] (IndexError when the list is empty,
\* an error when the call fails, as it does on a closed handle), then
\* close() of that connection, which the caller goes on with in place of
\* the one it acquired.
PoolExit(t, raised, ok) ==
    /\ thr[t].pc = "hold"
    /\ thr[t].op = PoolOp
    /\ IF connections # <<>> /\ ok /\ conn[LastConnection].open
       THEN /\ thr' = [thr EXCEPT ![t].pc = "close1", ![t].c = LastConnection,
                                   ![t].tx = ExitCall(raised)]
            /\ conn' = Sweep([conn EXCEPT ![LastConnection].in_use = FALSE],
                             connections, thr')
            /\ lastExc' = "none"
       ELSE /\ thr' = [thr EXCEPT ![t] = IdleThread]
            /\ conn' = Sweep(conn, connections, thr')
            /\ lastExc' = "Error"
    /\ UNCHANGED <<now, qvars, rq, uq, lock, connections, connection_count>>

TxNext ==
    \/ Tick
    \/ \E t \in DbThreads, created \in BOOLEAN : PoolEnter(t, created)
    \/ \E t \in DbThreads : WaitPoll(t)
    \/ \E t \in DbThreads : WaitTimeout(t)
    \/ \E t \in DbThreads, raised \in BOOLEAN, ok \in BOOLEAN : PoolExit(t, raised, ok)
    \/ \E t \in DbThreads : CloseStamp(t)
    \/ \E t \in DbThreads : CloseRelease(t)
    \/ \E current_time \in (now - 1)..now : Cleanup(current_time)
    \/ CloseAll

TxSpec == PoolInit /\ [][TxNext]_vars

\* ------------------------------------------------ the lock in the wait loop
\* acquire()'s wait loop with self.lock made explicit.  The other locked
\* blocks contain no blocking call: each runs as one step when the lock is
\* free.  One round of the loop is three steps: `with self.lock` is entered
\* (an RLock: free, or owned by the caller), the scan runs and the block is
\* left, then time.sleep(0.1).
LockFree == lock = NoThread

PollLock(t) ==
    /\ thr[t].pc = "wait"
    /\ Waiting(t)
    /\ lock \in {NoThread, t}
    /\ lock' = t
    /\ thr' = [thr EXCEPT ![t].pc = "poll"]
    /\ lastExc' = "none"
    /\ UNCHANGED <<now, qvars, rq, uq, connections, connection_count, conn>>

\* a wait loop that sleeps inside the `with self.lock` block
PollScanAsleep(t) ==
    /\ thr[t].pc = "poll"
    /\ lock = t
    /\ IF FirstIdle # 0
       THEN Hand(t, connections[FirstIdle], thr[t].op) /\ lock' = NoThread
       ELSE /\ thr' = [thr EXCEPT ![t].pc = "sleep"]
            /\ UNCHANGED <<connections, connection_count, conn, lock>>
    /\ lastExc' = "none"
    /\ UNCHANGED <<now, qvars, rq, uq>>

\* the scan of l.129-132; `return connection` and the end of the block both
\* leave the `with`, which drops the lock
PollScan(t) ==
    /\ thr[t].pc = "poll"
    /\ lock = t
    /\ IF FirstIdle # 0
       THEN Hand(t, connections[FirstIdle], thr[t].op)
       ELSE /\ thr' = [thr EXCEPT ![t].pc = "sleep"]
            /\ UNCHANGED <<connections, connection_count, conn>>
    /\ lock' = NoThread
    /\ lastExc' = "none"
    /\ UNCHANGED <<now, qvars, rq, uq>>

\* time.sleep(0.1) returns
PollSleep(t) ==
    /\ thr[t].pc = "sleep"
    /\ thr' = [thr EXCEPT ![t].pc = "wait"]
    /\ lastExc' = "none"
    /\ UNCHANGED <<now, qvars, rq, uq, lock, connections, connection_count, conn>>

LockNext ==
    \/ Tick
    \/ \E t \in Threads, created \in BOOLEAN : LockFree /\ Acquire(t, NoOp, created)
    \/ \E t \in Threads : PollLock(t)
    \/ \E t \in Threads : PollScan(t)
    \/ \E t \in Threads : PollSleep(t)
    \/ \E t \in Threads : WaitTimeout(t)
    \/ \E t \in Threads : LockFree /\ Release(t)
    \/ \E current_time \in (now - 1)..now : LockFree /\ Cleanup(current_time)

LockSpec == PoolInit /\ [][LockNext]_vars

\* ------------------------------------------- the wait loop without timeout
\* The callers of acquire() with a timeout that never elapses: no clock step
\* is taken, so the wait loop's condition stays true.  Every caller acquires,
\* holds and gives back over and over, by pool.release(connection) or by
\* connection.close(); connections are always created successfully.  The
\* locked blocks run when the lock is free.
ThreadStep(t) ==
    \/ LockFree /\ Acquire(t, NoOp, TRUE)
    \/ PollLock(t)
    \/ PollScan(t)
    \/ PollSleep(t)
    \/ LockFree /\ Release(t)
    \/ Close(t)
    \/ CloseStamp(t)
    \/ LockFree /\ CloseRelease(t)

\* the step that gives a held connection back to the pool
GiveBack(t) == LockFree /\ (Release(t) \/ CloseRelease(t))

FairNext == \E t \in Threads : ThreadStep(t)

\* no thread stops for ever while it has a step to take, and a thread that
\* is giving its connection back gets the lock in the end: every holder
\* releases, every waiter keeps going round its loop
FairSpec ==
    /\ PoolInit
    /\ [][FairNext]_vars
    /\ \A t \in Threads : WF_vars(ThreadStep(t)) /\ SF_vars(GiveBack(t))

\* ------------------------------------------------ handles that fail to close
\* a cleanup() that counts a connection out before it has closed its handle
CleanupPassCountsFirst(current_time, failed) ==
    /\ LET idle == IdleTooLong(current_time)
           gone == idle \ failed
       IN /\ connections' = Without(connections, gone)
          /\ connection_count' = connection_count - Cardinality(idle)
          /\ conn' = Sweep([c \in ConnIds |->
                              IF c \in gone THEN [conn[c] EXCEPT !.open = FALSE]
                              ELSE conn[c]],
                           connections', thr)
    /\ lastExc' = IF failed # {} THEN "logged" ELSE "none"
    /\ UNCHANGED <<now, qvars, rq, uq, lock, thr>>

\* a cleanup() that closes the idle handles and leaves them in the list
CleanupPassKeepsClosed(current_time, failed) ==
    /\ LET gone == IdleTooLong(current_time) \ failed
       IN /\ conn' = [c \in ConnIds |->
                        IF c \in gone THEN [conn[c] EXCEPT !.open = FALSE]
                        ELSE conn[c]]
    /\ lastExc' = IF failed # {} THEN "logged" ELSE "none"
    /\ UNCHANGED <<now, qvars, rq, uq, lock, thr, connections, connection_count>>

\* ConnectionPool.cleanup with handles whose close() raises.  failed are the
\* idle connections whose connection.conn.close() raises: the except clause
\* logs the error, so remove() and the decrement of l.184-185 are skipped for
\* them and the handle stays open.  lastExc is "logged" when an error was
\* caught and logged; cleanup itself raises nothing.
CleanupPass(current_time, failed) ==
    /\ LET gone == IdleTooLong(current_time) \ failed
       IN /\ connections' = Without(connections, gone)
          /\ connection_count' = connection_count - Cardinality(gone)
          /\ conn' = Sweep([c \in ConnIds |->
                              IF c \in gone THEN [conn[c] EXCEPT !.open = FALSE]
                              ELSE conn[c]],
                           connections', thr)
    /\ lastExc' = IF failed # {} THEN "logged" ELSE "none"
    /\ UNCHANGED <<now, qvars, rq, uq, lock, thr>>

\* acquire, release, cleanup and close_all called from any thread, with
\* connections that cannot be created and handles that cannot be closed
FailNext ==
    \/ Tick
    \/ \E t \in Threads, created \in BOOLEAN : Acquire(t, NoOp, created)
    \/ \E t \in Threads : WaitPoll(t)
    \/ \E t \in Threads : WaitTimeout(t)
    \/ \E t \in Threads : Release(t)
    \/ \E t \in Threads : Close(t)
    \/ \E t \in Threads : CloseStamp(t)
    \/ \E t \in Threads : CloseRelease(t)
    \/ \E current_time \in (now - 1)..now :
          \E failed \in SUBSET IdleTooLong(current_time) :
              CleanupPass(current_time, failed)
    \/ CloseAll

FailSpec == PoolInit /\ [][FailNext]_vars

\* -------------------------------------------------- properties of the pool
\* the callers between acquire()'s return and their release of the connection
Holders(c) == {t \in Threads : thr[t].pc = "hold" /\ thr[t].c = c}

\* the connections handed out, not yet released, and marked in use
HandedOut == {c \in ConnIds : Holders(c) # {} /\ conn[c].in_use}

\* C4: a connection a caller holds is held by no other caller, and acquire()
\* hands out no connection whose in_use flag is set.
C4_OneHolder ==
    /\ [](\A c \in ConnIds : Cardinality(Holders(c)) <= 1)
    /\ [][\A t \in Threads :
            thr[t].pc \in {"idle", "wait"} /\ thr'[t].pc = "hold" /\ InPool(thr'[t].c)
            => ~conn[thr'[t].c].in_use]_vars

\* C5: at most max_connections connections are handed out and in use.
C5_AtMostMaxInUse == Cardinality(HandedOut) <= MaxConnections

\* C6: when no caller is inside a call, every connection of the pool is
\* idle: every scoped use, however it ended, has given its connection back.
C6_NoLeak ==
    \A c \in Pooled : conn[c].in_use => \E t \in Threads : thr[t].c = c

\* C7: a caller leaves the wait loop with a connection only if the timeout
\* has not elapsed and the connection was idle; otherwise it leaves with
\* TimeoutError, after the timeout has elapsed, and the pool's connections,
\* their flags and connection_count are as they were.
C7_TimeoutLeavesPool ==
    [][\A t \in Threads :
          thr[t].pc = "wait" /\ thr'[t].pc # "wait" =>
              IF thr'[t].pc = "hold"
              THEN /\ now - thr[t].t0 < PoolTimeout
                   /\ InPool(thr'[t].c)
                   /\ ~conn[thr'[t].c].in_use
              ELSE /\ now - thr[t].t0 >= PoolTimeout
                   /\ lastExc' = "TimeoutError"
                   /\ thr'[t] = IdleThread
                   /\ UNCHANGED <<connections, connection_count, conn>>]_vars

\* acquire() has just raised TimeoutError: the pool is full, every connection
\* is in use, and max_connections callers hold one
C7_Witness ==
    /\ lastExc = "TimeoutError"
    /\ connection_count = MaxConnections
    /\ Len(connections) = MaxConnections
    /\ \A c \in Pooled : conn[c].in_use /\ Holders(c) # {}

\* C8: cleanup removes the connections that are idle and were last used more
\* than max_idle_time ago, no others, and none that a caller holds.
C8_CleanupSparesHolders ==
    [][\A current_time \in (now - 1)..now :
          Cleanup(current_time) =>
              \A c \in Pooled :
                  (\A k \in 1..Len(connections') : connections'[k] # c) =>
                      /\ ~conn[c].in_use
                      /\ current_time - conn[c].last_used > MaxIdleTime
                      /\ Holders(c) = {}]_vars

\* ------------------------------------------- properties of DatabaseManager
\* C17: when the with-block of execute, execute_many, query or query_one
\* ends, the connection is rolled back if the statement raised and committed
\* if it did not, and is on its way back to the pool; when the method ends,
\* the connection is idle again, and the caller gets the exception if the
\* statement raised and the result if it did not.
C17_StatementReleases ==
    [][\A t \in Threads :
          thr[t].op = "statement" =>
              /\ \A raised \in BOOLEAN, ok \in BOOLEAN :
                    DbExit(t, raised, ok) =>
                        /\ thr'[t].pc = "close1"
                        /\ thr'[t].tx = IF raised THEN "rollback" ELSE "commit"
              /\ thr[t].pc = "close2" /\ thr'[t].pc = "idle" =>
                    /\ InPool(thr[t].c) => ~conn'[thr[t].c].in_use
                    /\ MethodResult(thr[t].op, thr[t].tx = "rollback")
                         = IF thr[t].tx = "rollback" THEN "raise" ELSE "value"]_vars

\* C18: backup, vacuum and optimize end by returning True or False, True
\* exactly when nothing raised inside them, and the connection they acquired
\* has been given back to the pool when they return.
C18_MaintenanceReturns ==
    [][\A t \in Threads :
          thr[t].op = "maintenance" /\ thr[t].pc # "idle" /\ thr'[t].pc = "idle" =>
              LET failed == lastExc' # "none" \/ thr[t].tx = "rollback"
              IN /\ MethodResult(thr[t].op, failed) = IF failed THEN "False" ELSE "True"
                 /\ thr[t].c # NoConn /\ InPool(thr[t].c) => ~conn'[thr[t].c].in_use]_vars

\* C19: release(connection) sets the connection's in_use flag to false and
\* stamps last_used with the current time, and leaves the pool's list, its
\* connection_count and the open/closed state of every handle as they were;
\* when the connection is not in the pool, no connection that still exists
\* changes at all.
C19_ReleaseFrame ==
    [][\A t \in Threads :
          Release(t) \/ CloseRelease(t) =>
              LET c == thr[t].c
              IN /\ connections' = connections
                 /\ connection_count' = connection_count
                 /\ InPool(c) =>
                       /\ ~conn'[c].in_use
                       /\ conn'[c].last_used = now
                       /\ conn'[c].open = conn[c].open
                       /\ \A d \in ConnIds \ {c} : conn'[d] = conn[d]
                 /\ ~InPool(c) =>
                       \A d \in Referenced(connections, thr') : conn'[d] = conn[d]]_vars

\* a released connection lies idle in the pool, stamped now, next to one
\* that is still handed out
C19_Witness ==
    \E c \in Pooled, d \in Pooled :
        /\ c # d
        /\ ~conn[c].in_use /\ Holders(c) = {} /\ conn[c].last_used = now /\ conn[c].open
        /\ conn[d].in_use /\ Holders(d) # {} /\ conn[d].last_used < now
        /\ connection_count = Len(connections)

C21_PoolBounded ==
    /\ [](Len(connections) <= MaxConnections /\ connection_count = Len(connections))
    /\ [][(\E c \in ConnIds : InPool(c)' /\ ~InPool(c)) =>
             /\ FirstIdle = 0
             /\ connection_count < MaxConnections
             /\ \E c \in ConnIds \ Pooled : connections' = Append(connections, c)]_vars

\* the pool is full, every connection is handed out, and a further caller
\* was refused a new connection and waits
C21_Witness ==
    /\ Len(connections) = MaxConnections
    /\ \A c \in Pooled : conn[c].in_use
    /\ \E t \in Threads : thr[t].pc = "wait"

\* C22: a caller that sleeps in acquire()'s wait loop, or is between two
\* rounds of it, does not own the pool lock; the lock is owned only by a
\* caller inside the scan of one round, and that scan can always finish and
\* drops the lock; whenever the lock is free every holder's release(),
\* cleanup() and every idle caller's acquire() can run, whoever is waiting.
C22_NoLockAcrossSleep ==
    /\ [](\A t \in Threads : thr[t].pc \in {"sleep", "wait"} => lock # t)
    /\ [](\A t \in Threads :
             lock = t => /\ thr[t].pc = "poll"
                         /\ ENABLED PollScan(t))
    /\ [][\A t \in Threads : PollScan(t) => lock' = NoThread]_vars
    /\ [](LockFree =>
             /\ \A u \in Threads : thr[u].pc = "hold" => ENABLED (LockFree /\ Release(u))
             /\ \A u \in Threads :
                   thr[u].pc = "idle" => ENABLED (LockFree /\ Acquire(u, NoOp, TRUE))
             /\ ENABLED (LockFree /\ Cleanup(now)))

\* a caller sleeps in the wait loop while a holder has released its
\* connection, which lies idle in the pool
C22_Witness ==
    /\ LockFree
    /\ FirstIdle # 0
    /\ \E t \in Threads : thr[t].pc = "sleep"

\* C23: a step of the request queue (put, start, stop, an attempt) leaves
\* the message queue's items, running flag, tasks and last_send_time as they
\* were, and a step of the message queue leaves the request queue as it
\* was; each loop starts an attempt exactly when its own queue's head is due
\* and its own last attempt is rate_limit or more ago, whatever the other
\* queue's last attempt.
C23_QueuesIndependent ==
    /\ [][rq' # rq =>
             UNCHANGED <<item, running, task, tasks, stopPending, last_send_time>>]_vars
    /\ [][<<item, running, task, tasks, stopPending, last_send_time>>'
             # <<item, running, task, tasks, stopPending, last_send_time>>
             => rq' = rq]_vars
    /\ [](\A t \in TaskIds :
             Awake(t) /\ running /\ item[1].st = "queued" =>
                 (ENABLED LoopSend(t, 1)
                    <=> /\ now - last_send_time >= RateLimit
                        /\ item[1].scheduled_time <= now))
    /\ [](rq.running /\ rq.pc = "sleep" /\ now >= rq.wake /\ rq.req.st = "queued" =>
             (ENABLED RLoopSend
                <=> /\ now - rq.last_process_time >= RateLimit
                    /\ rq.req.scheduled_time <= now))

\* each queue has completed an attempt within the same rate_limit interval
C23_Witness ==
    /\ last_send_time = now
    /\ rq.last_process_time = now
    /\ item[1].attempts > 0 /\ rq.req.attempts > 0

\* C24: an item is put with scheduled_time = creation time + delay and
\* re-queued after a failure with scheduled_time = that time + the retry
\* delay; no item is taken out of the queue before its scheduled_time; and
\* while the scheduled_time of every item at the head is in the future no
\* loop can take anything out, and a loop's iteration leaves the items as
\* they are.
C24_NotBeforeSchedule ==
    /\ [][\A h \in Items :
             /\ Removed(h) => item[h].scheduled_time <= now
             /\ item[h].st = "new" /\ item'[h].st = "queued" =>
                   item'[h].scheduled_time - now \in Delays
             /\ Attempted(h) /\ item'[h].st = "queued" =>
                   item'[h].scheduled_time = now + RetryDelay]_vars
    /\ [](Queued # {} /\ (\A h \in Heads : item[h].scheduled_time > now) =>
             \A t \in TaskIds, h \in Items : ~ENABLED LoopSend(t, h))
    /\ [][\A t \in TaskIds : LoopIdle(t) => item' = item]_vars

\* an item that failed once is in flight again, after its retry delay, while
\* another waits in the queue for its scheduled_time
C24_Witness ==
    \E i \in Items, j \in Items :
        /\ item[i].st = "flight" /\ item[i].retry_count > 0
        /\ item[j].st = "queued" /\ item[j].scheduled_time > now

\* C25, as stated: an attempt that fails (a response that is not ok, no
\* response, an exception) leaves last_send_time unchanged.
C25_FailureKeepsStamp ==
    [][\A t \in TaskIds, resp \in Responses, d \in JitterDelays :
          SendDone(t, resp, d) /\ ~Success(resp) =>
              last_send_time' = last_send_time]_vars

\* C25, amended: last_send_time records the completion time of the most
\* recent attempt, successful or not: every returning transport call sets
\* it to the current time, nothing else changes it, and no loop takes an
\* item out less than rate_limit after it.
C25_StampEveryAttempt ==
    /\ [][\A t \in TaskIds, resp \in Responses, d \in JitterDelays :
             SendDone(t, resp, d) => last_send_time' = now]_vars
    /\ [][last_send_time' # last_send_time => \E h \in Items : Attempted(h)]_vars
    /\ [][\A h \in Items : Removed(h) => now - last_send_time >= RateLimit]_vars

\* an attempt has just failed, nothing was ever delivered, and
\* last_send_time is the time of that failure
C25_Witness ==
    /\ last_send_time = now
    /\ \A i \in Items : item[i].st # "done"
    /\ \E i \in Items : item[i].st = "queued" /\ item[i].retry_count > 0
                          /\ item[i].scheduled_time = now + RetryDelay

\* C26: the item a loop takes out is one that no queued item, fresh or
\* re-queued, is less than under __lt__ (priority, then scheduled_time); a
\* re-queued item keeps its priority and differs from a fresh one only in
\* its scheduled_time and its retry_count, which the comparison ignores.
C26_RetryOrderedAlike ==
    /\ [][\A h \in Items :
             Removed(h) => \A j \in Queued : ~Lt(item[j], item[h])]_vars
    /\ [][\A h \in Items :
             Attempted(h) /\ item'[h].st = "queued" =>
                 /\ item'[h].priority = item[h].priority
                 /\ item'[h].scheduled_time = now + RetryDelay
                 /\ item'[h].retry_count = item[h].retry_count + 1]_vars
    /\ [](\A i \in Queued, j \in Queued :
             Key(item[i]) = Key(item[j]) => (i \in Heads <=> j \in Heads))

\* a re-queued item of higher priority is in flight again while a fresh
\* item that has never been attempted waits
C26_Witness ==
    \E i \in Items, j \in Items :
        /\ item[i].st = "flight" /\ item[i].retry_count > 0
        /\ Untouched(item[j]) /\ item[j].scheduled_time <= now
        /\ item[i].priority < item[j].priority

\* C27: when the pool is the with-statement's manager, the connection
\* that __exit__ commits or rolls back and then closes is the one __enter__
\* returned to this caller, and once the exit is through that connection is
\* no longer marked in_use.
C27_ExitReleasesAcquired ==
    [][\A t \in Threads, raised \in BOOLEAN :
          PoolExit(t, raised, TRUE) /\ lastExc' = "none" =>
              /\ thr'[t].c = thr[t].c
              /\ ~conn'[thr[t].c].in_use]_vars

C29_ItemAccounted ==
    \A i \in Items :
        item[i].st # "new" =>
            /\ item[i].st \in {"queued", "flight", "done", "dropped"}
            /\ item[i].st = "done" => item[i].attempts >= 1
            /\ item[i].st = "dropped" => item[i].attempts = DefaultMaxRetries + 1

\* C30: once the loop runs, every queued item is eventually delivered or
\* dropped, after no more than max_retries + 1 transport calls, and from
\* some moment on the queue stays empty with no item in a transport call.
C30_EveryItemSettles ==
    /\ [](\A i \in ConcItems : item[i].attempts <= DefaultMaxRetries + 1)
    /\ \A i \in ConcItems :
          (running /\ item[i].st = "queued") ~> (item[i].st \in {"done", "dropped"})
    /\ <>[](running => \A i \in ConcItems : item[i].st \in {"new", "done", "dropped"})

\* the loop has delivered one item and dropped the other after its
\* max_retries + 1 attempts; the queue is empty
C30_Witness ==
    /\ running
    /\ Queued = {}
    /\ \E i \in ConcItems, j \in ConcItems :
          /\ item[i].st = "done"
          /\ item[j].st = "dropped" /\ item[j].attempts = DefaultMaxRetries + 1

\* C31: Connection.__exit__ releases the connection whether the commit() of
\* a normal exit or the rollback() of an abnormal exit succeeds or raises:
\* the exit goes on into close() with the in_use flag cleared.
C31_ExitAlwaysReleases ==
    [][\A t \in Threads, raised \in BOOLEAN, ok \in BOOLEAN :
          Exit(t, raised, ok) /\ InPool(thr[t].c) =>
              /\ thr'[t].pc = "close1"
              /\ ~conn'[thr[t].c].in_use]_vars

\* C32: acquire() raises TimeoutError only while the pool is at its cap: a
\* caller waiting when connection_count has dropped below max_connections
\* gets a connection instead.
C32_NoTimeoutBelowCap ==
    [][\A t \in Threads :
          WaitTimeout(t) => connection_count >= MaxConnections]_vars

\* C33: with a timeout that never elapses, weak fairness on every thread's
\* steps and every holder releasing in the end, each caller waiting in
\* acquire() eventually gets a connection.
C33_WaiterServed ==
    \A t \in Threads :
        (thr[t].pc \in {"wait", "poll", "sleep"}) ~> (thr[t].pc = "hold")

\* C34: whenever the pool lock is free, connection_count is the number of
\* connections in the pool's list, and an acquire() whose connection could
\* not be created leaves both as they were.
C34_CountIsLength ==
    /\ [](LockFree => connection_count = Len(connections))
    /\ [][\A t \in Threads :
             Acquire(t, NoOp, FALSE) => UNCHANGED <<connections, connection_count>>]_vars

\* a cleanup pass has just logged a handle that would not close: the
\* connection is still in the list, idle and open, and still counted
C34_Witness ==
    /\ lastExc = "logged"
    /\ connection_count = Len(connections)
    /\ \E c \in Pooled :
          ~conn[c].in_use /\ conn[c].open /\ now - conn[c].last_used > MaxIdleTime

\* C35: whenever the lock is free every connection in the pool's list has
\* an open handle, and the connection acquire() returns is open.
C35_PooledAreOpen ==
    /\ [](LockFree => \A c \in Pooled : conn[c].open)
    /\ [][\A t \in Threads :
             thr[t].pc \in {"idle", "wait"} /\ thr'[t].pc = "hold"
             => conn'[thr'[t].c].open]_vars

\* close_all() has closed the handle a caller still holds, and another
\* caller has since acquired a connection, which is in the pool and open
C35_Witness ==
    \E t \in Threads, u \in Threads :
        /\ thr[t].pc = "hold" /\ ~conn[thr[t].c].open /\ ~InPool(thr[t].c)
        /\ thr[u].pc = "hold" /\ InPool(thr[u].c) /\ conn[thr[u].c].open

\* ------------------------------------ properties of the queues of utils/queue.py
\* the loop takes entry e out of the queue in this step
UTaken(e) == uq.ent[e].st = "queued" /\ uq'.ent[e].st = "flight"

\* C36: in the MessageQueue of utils/queue.py a message is taken out and
\* sent only when no queued message was put with a smaller priority number.
C36_SmallerNumberFirst ==
    [][\A e \in UEntries :
          uq.kind = "message" /\ UTaken(e) =>
              \A j \in UEntries :
                  uq.ent[j].st = "queued" => uq.ent[j].priority >= uq.ent[e].priority]_vars

\* C37: the shutdown of a cancelled task never turns the processor off:
\* when start() has been called since the stop() that cancelled it, running
\* stays true through the old task's cancellation handler.
C37_OldTaskLeavesRunning ==
    [][\A t \in UTasks :
          ProcessCancelled(t) /\ uq.running => uq'.running]_vars

\* C38: for every request the loop has taken out, func is invoked at most
\* retry_times times; the successful invocation completes the future with
\* its result and ends the processing; a request given up has had
\* retry_times invocations and its future holds the exception of the last;
\* a completed future is never completed again and func is not invoked
\* after it.
C38_FutureCompletedOnce ==
    /\ [](uq.kind = "request" =>
            \A e \in UEntries :
                /\ uq.ent[e].calls <= RetryTimes
                /\ uq.ent[e].st # "error"
                /\ uq.ent[e].st = "queued" =>
                      uq.ent[e].fut = "pending" /\ uq.ent[e].calls = 0
                /\ uq.ent[e].st = "sent" =>
                      /\ uq.ent[e].fut = "result"
                      /\ uq.ent[e].futAt = uq.ent[e].calls
                /\ uq.ent[e].st = "failed" =>
                      /\ uq.ent[e].fut = "exception"
                      /\ uq.ent[e].calls = RetryTimes
                      /\ uq.ent[e].futAt = RetryTimes)
    /\ [][uq.kind = "request" =>
            /\ \A e \in UEntries :
                  uq.ent[e].fut \in {"result", "exception"} =>
                      /\ uq'.ent[e].fut = uq.ent[e].fut
                      /\ uq'.ent[e].calls = uq.ent[e].calls
            /\ \A t \in UTasks :
                  CallDone(t, TRUE) =>
                      /\ uq'.ent[uq.tk[t].cur].fut = "result"
                      /\ uq'.ent[uq.tk[t].cur].st = "sent"]_vars

\* one request succeeded at its second invocation, another was given up
\* after retry_times failed invocations
C38_Witness ==
    /\ uq.kind = "request"
    /\ \E e \in UEntries, f \in UEntries :
          /\ uq.ent[e].st = "sent" /\ uq.ent[e].calls = 2 /\ uq.ent[e].fut = "result"
          /\ uq.ent[f].st = "failed" /\ uq.ent[f].calls = RetryTimes
          /\ uq.ent[f].fut = "exception"

\* C39: the queue never holds more than max_queue_size entries and no
\* producer is ever suspended in put; a put on a full queue changes nothing
\* but its own result (False from MessageQueue.put, a future failed with
\* RuntimeError from RequestQueue.put), and a put on a queue that is not
\* full appends the entry.
C39_QueueBounded ==
    /\ [](/\ Len(uq.queue) <= MaxQueueSize
          /\ \A e \in UEntries : uq.ent[e].st # "blocked")
    /\ [][\A e \in UEntries, p \in UPriorities :
             UtilPut(e, p) =>
                 IF UFull(uq)
                 THEN /\ uq' = [uq EXCEPT !.ent[e] = uq'.ent[e]]
                      /\ uq'.ent[e].st = "rejected"
                      /\ uq'.ent[e].fut =
                            IF uq.kind = "request" THEN "exception" ELSE "none"
                 ELSE uq'.queue = Append(uq.queue, e)]_vars

\* the RequestQueue is full and a put has been refused with a failed future
C39_Witness ==
    /\ uq.kind = "request"
    /\ Len(uq.queue) = MaxQueueSize
    /\ \E e \in UEntries : uq.ent[e].st = "rejected" /\ uq.ent[e].fut = "exception"

====
